---- MODULE Spec2Model ----
(***************************************************************************)
(* Model of the knowledge-base MCP server (src/agent.py): the tool         *)
(* handlers, the three external services they call (embedding provider,    *)
(* vector store, exec API) and the outbound calls each invocation makes.   *)
(*                                                                         *)
(* Text is a sequence of one-character strings.  A Python dict result is a *)
(* record whose DOMAIN is the dict's key set.  Similarity scores are       *)
(* integers in units of 1/ScoreScale.                                      *)
(***************************************************************************)
EXTENDS Integers, Sequences, FiniteSets, TLC

VARIABLES
    qdrant,       \* TRUE iff the module-level QdrantClient was constructed
    openai,       \* TRUE iff OPENAI_API_KEY was set (openai_client is not None)
    collections,  \* vector store: collection name -> VectorParams
    points,       \* vector store: set of [coll, id, vector, payload]
    issued,       \* point identifiers uuid4 has handed out so far
    op,           \* the last tool invocation and its arguments
    result,       \* what that invocation returned
    calls,        \* the outbound calls that invocation made, in order
    pc,           \* concurrent create_collection: position of each invocation
    cname,        \* concurrent create_collection: the name argument
    existing,     \* concurrent create_collection: the list get_collections returned
    cresult,      \* concurrent create_collection: the value returned
    creator       \* which invocation's create call the store applied

vars == <<qdrant, openai, collections, points, issued, op, result, calls,
          pc, cname, existing, cresult, creator>>

storeVars == <<collections, points>>
concVars == <<pc, cname, existing, cresult, creator>>
seqVars == <<issued, op, result, calls>>

-----------------------------------------------------------------------------
(* Bounds of the model *)

MaxPoints == 2
MaxOver == 1
MaxLimit == 2
NumProcs == 2
VecSpace == 4

-----------------------------------------------------------------------------
(* Program constants *)

EMBEDDING_DIMENSIONS == 1536
EmbedMaxChars == 8000
PreviewLen == 500
InternalPreviewLen == 1000
TroubleshootLimit == 5
DefaultExecTimeout == 300
ReadFileTimeout == 60
WriteFileTimeout == 60
ListDirTimeout == 30
ThresholdTenths == 3
ScoreScale == 100000
SearchDigits == 4
InternalDigits == 3

-----------------------------------------------------------------------------
(* Text helpers *)

Min(a, b) == IF a < b THEN a ELSE b

\* Python's s[:n]
Take(s, n) == SubSeq(s, 1, Min(Len(s), n))

\* str.lower() on the letters that occur in the model's inputs
LowerChar(c) ==
    CASE c = "M" -> "m"
      [] c = "N" -> "n"
      [] c = "G" -> "g"
      [] c = "C" -> "c"
      [] c = "I" -> "i"
      [] OTHER -> c

\* str.replace(old, new) for one-character old and new
ReplaceChar(s, old, new) == [i \in 1..Len(s) |-> IF s[i] = old THEN new ELSE s[i]]

Lower(s) == [i \in 1..Len(s) |-> LowerChar(s[i])]

CleanNameNoSpaces(name) == ReplaceChar(Lower(name), "-", "_")

\* clean_name = name.lower().replace("-", "_").replace(" ", "_")
CleanName(name) == ReplaceChar(ReplaceChar(Lower(name), "-", "_"), " ", "_")

-----------------------------------------------------------------------------
(* Inputs the tools are invoked with *)

MyNotesSpaced == <<"M", "y", " ", "N", "o", "t", "e", "s">>
MyNotesHyphen == <<"m", "y", "-", "n", "o", "t", "e", "s">>
MyNotesClean == <<"m", "y", "_", "n", "o", "t", "e", "s">>
InfraRaw ==
    <<"G", "o", "l", "d", " ", "C", "o", "a", "s", "t", "-",
      "I", "n", "f", "r", "a", "s", "t", "r", "u", "c", "t", "u", "r", "e">>

\* "gold_coast_infrastructure", the collection troubleshoot searches
InfraCollection ==
    <<"g", "o", "l", "d", "_", "c", "o", "a", "s", "t", "_",
      "i", "n", "f", "r", "a", "s", "t", "r", "u", "c", "t", "u", "r", "e">>

\* names given to create_collection
CreateNames == {MyNotesSpaced, MyNotesHyphen, MyNotesClean, InfraRaw}

\* names given to the operations that use the name as it is
CollectionArgs == {MyNotesClean, InfraCollection}

Fill(n, c) == [i \in 1..n |-> c]

\* title and content given to add_knowledge: an empty note, a note whose
\* content just fits the preview, a note whose content exceeds it
Notes ==
    {[title |-> <<>>, content |-> <<>>],
     [title |-> <<"f", "i", "x">>, content |-> Fill(PreviewLen, "a")],
     [title |-> <<"f", "i", "x">>, content |-> Fill(PreviewLen + MaxOver, "a")]}
Categories == {"general"}
Sources == {"web_search"}
Queries == {Fill(n, "q") : n \in 1..VecSpace}
Limits == 0..MaxLimit
PointIds == 1..MaxPoints
ExecTimeouts == {DefaultExecTimeout}

\* datetime.utcnow().isoformat(): a value this layer writes and never reads
UtcNow == "utcnow"

-----------------------------------------------------------------------------
(* The external services, as stubs *)

\* How one outbound SDK call can end: it returns; it raises before the
\* service acted; it raises after the service acted (the response was lost).
WriteOutcomes == {"ok", "refused", "lost"}

\* A call that changes nothing at the service: it returns or it raises.
ReadOutcomes == {"ok", "refused"}

\* The outcomes to consider for a call: those of `set` when the handler
\* gets as far as making the call, and a single placeholder when it does not
Outs(reached, set) == IF reached THEN set ELSE {"ok"}

Applied(outcome) == outcome \in {"ok", "lost"}

\* How one POST to the exec API can end.
HttpOutcomes == {"200_rc0", "200_rc1", "200_badjson", "500", "timeout", "connect"}

Call(svc, api, outcome, mutating) ==
    [svc |-> svc, api |-> api, outcome |-> outcome, mutating |-> mutating]

\* The f-string f"{title}\n\n{content}"
EmbedText(title, content) == title \o <<"\n", "\n">> \o content

\* The stub embedding: one of VecSpace vectors, a function of the text sent
StubVector(text) == Len(text) % VecSpace

Abs(x) == IF x < 0 THEN -x ELSE x

\* The stub similarity of a query vector and a stored vector, in 1/ScoreScale
Similarity(q, v) ==
    CASE Abs(q - v) = 0 -> ScoreScale
      [] Abs(q - v) = 1 -> 30050
      [] Abs(q - v) = 2 -> 30051
      [] Abs(q - v) = 3 -> -5000
      [] OTHER -> 12345

Pow10(n) == IF n = 4 THEN 10000 ELSE IF n = 3 THEN 1000 ELSE 1

\* Python's round(score, digits): to the nearest multiple of 10^-digits, a tie
\* to the even one.  The value is in units of 10^-digits.
RoundScore(score, digits) ==
    LET unit == ScoreScale \div Pow10(digits)
        q == score \div unit
        r == score % unit
    IN  IF 2 * r < unit THEN q
        ELSE IF 2 * r > unit THEN q + 1
        ELSE IF q % 2 = 0 THEN q ELSE q + 1

Names == DOMAIN collections

PointsOf(coll) == {p \in points : p.coll = coll}

IsSortedByScore(seq, qvec) ==
    \A i \in 1..(Len(seq) - 1) :
        Similarity(qvec, seq[i].vector) >= Similarity(qvec, seq[i + 1].vector)

\* The orders in which the store may return all the points of a collection:
\* by non-increasing score, points of equal score in any order.
Rankings(coll, qvec) ==
    LET ps == PointsOf(coll)
        n == Cardinality(ps)
    IN  {seq \in [1..n -> ps] :
            /\ \A i, j \in 1..n : i # j => seq[i] # seq[j]
            /\ IsSortedByScore(seq, qvec)}

\* qdrant.query_points(collection_name, query, limit).points: the top `limit`
\* of a ranking (the store's contract)
QueryPointsAnswers(coll, qvec, limit) ==
    {Take(seq, limit) : seq \in Rankings(coll, qvec)}

\* Whether the store accepts a query: the collection exists, the limit is
\* positive (a limit of 0 it may accept or reject)
QueryAccepted(coll, limit, lenient) ==
    /\ coll \in Names
    /\ limit >= 1 \/ (limit = 0 /\ lenient)

\* VectorParams(size=EMBEDDING_DIMENSIONS, distance=Distance.COSINE)
VectorParams == [size |-> EMBEDDING_DIMENSIONS, distance |-> "Cosine"]

\* What the store hands back for a stored point: id, score and payload
Scored(p, qvec) ==
    [id |-> p.id, score |-> Similarity(qvec, p.vector), payload |-> p.payload]

ScoredAnswers(coll, qvec, limit) ==
    {[i \in 1..Len(a) |-> Scored(a[i], qvec)] : a \in QueryPointsAnswers(coll, qvec, limit)}

\* qdrant.create_collection: the store creates the collection atomically and
\* rejects a name that exists.
CreateRaises(name, outcome) == outcome # "ok" \/ name \in Names

CollectionsAfterCreate(name, outcome) ==
    IF Applied(outcome) /\ name \notin Names
    THEN [n \in Names \cup {name} |-> IF n = name THEN VectorParams ELSE collections[n]]
    ELSE collections

\* qdrant.delete_collection: deleting a collection that does not exist is no error
CollectionsAfterDelete(name, outcome) ==
    IF Applied(outcome) THEN [n \in Names \ {name} |-> collections[n]] ELSE collections

PointsAfterDeleteCollection(name, outcome) ==
    IF Applied(outcome) THEN {p \in points : p.coll # name} ELSE points

\* qdrant.upsert: insert the point, or overwrite the point that has its id
UpsertRaises(coll, outcome) == outcome # "ok" \/ coll \notin Names

PointsAfterUpsert(coll, point, outcome) ==
    IF Applied(outcome) /\ coll \in Names
    THEN {p \in points : ~(p.coll = coll /\ p.id = point.id)} \cup {point}
    ELSE points

\* qdrant.delete with a PointIdsList: an absent identifier is no error
DeletePointsRaises(coll, outcome) == outcome # "ok" \/ coll \notin Names

PointsAfterDeletePoint(coll, id, outcome) ==
    IF Applied(outcome) /\ coll \in Names
    THEN {p \in points : ~(p.coll = coll /\ p.id = id)}
    ELSE points

-----------------------------------------------------------------------------
(* Results *)

Error(msg) == [error |-> [msg |-> msg]]

\* {"error": str(e)} for an exception raised by the call `api`
Wrapped(api) == [error |-> [msg |-> "str(e)", api |-> api]]

\* {"error": str(e)} for an exception of class `exc` raised by httpx.post or
\* by response.json()
WrappedHttp(exc) == [error |-> [msg |-> "str(e)", exc |-> exc]]

Has(r, key) == key \in DOMAIN r

\* dict.get(key, default)
Get(d, key, default) == IF key \in DOMAIN d THEN d[key] ELSE default

Idle == [name |-> "none"]

\* The server takes invocation `o` and runs its handler to the return
Invoke(o, r, c) == op = Idle /\ op' = o /\ result' = r /\ calls' = c

\* The result is sent to the caller; the server is ready for the next call
Respond ==
    /\ op # Idle
    /\ op' = Idle
    /\ result' = <<>>
    /\ calls' = <<>>
    /\ UNCHANGED <<qdrant, openai, storeVars, issued, concVars>>

-----------------------------------------------------------------------------
(* generate_embedding *)

EmbeddingConfiguredAlways == TRUE

\* `if not openai_client` of generate_embedding is not taken
EmbeddingConfigured == openai

GenerateEmbeddingRunRetrying(text, eo) ==
    IF ~EmbeddingConfigured
    THEN [value |-> <<>>, calls |-> <<>>]
    ELSE [value |-> <<StubVector(Take(text, EmbedMaxChars))>>,
          calls |-> IF eo = "ok"
                    THEN <<Call("openai", "embeddings.create", "ok", FALSE)>>
                    ELSE <<Call("openai", "embeddings.create", eo, FALSE),
                           Call("openai", "embeddings.create", "ok", FALSE)>>]

\* The value returned (<<>> for None, <<v>> for a vector) and the calls made
GenerateEmbeddingRun(text, eo) ==
    IF ~EmbeddingConfigured
    THEN [value |-> <<>>, calls |-> <<>>]
    ELSE [value |-> IF eo = "ok" THEN <<StubVector(Take(text, EmbedMaxChars))>> ELSE <<>>,
          calls |-> <<Call("openai", "embeddings.create", eo, FALSE)>>]

GenerateEmbedding(text) ==
    \E eo \in Outs(openai, ReadOutcomes) :
        LET g == GenerateEmbeddingRun(text, eo)
        IN  /\ Invoke([name |-> "generate_embedding", text |-> text], g.value, g.calls)
            /\ UNCHANGED <<qdrant, openai, storeVars, issued, concVars>>

-----------------------------------------------------------------------------
(* list_collections, get_collection_stats *)

ListCollections ==
    \E go \in Outs(qdrant, ReadOutcomes) :
        /\ IF ~qdrant
           THEN Invoke([name |-> "list_collections"], Error("Qdrant not connected"), <<>>)
           ELSE Invoke([name |-> "list_collections"],
                       IF go = "ok"
                       THEN [collections |-> Names, count |-> Cardinality(Names)]
                       ELSE Wrapped("get_collections"),
                       <<Call("qdrant", "get_collections", go, FALSE)>>)
        /\ UNCHANGED <<qdrant, openai, storeVars, issued, concVars>>

GetCollectionStats(collection) ==
    \E go \in Outs(qdrant, ReadOutcomes) :
        /\ IF ~qdrant
           THEN Invoke([name |-> "get_collection_stats", collection |-> collection],
                       Error("Qdrant not connected"), <<>>)
           ELSE Invoke([name |-> "get_collection_stats", collection |-> collection],
                       IF go = "ok" /\ collection \in Names
                       THEN [collection |-> collection,
                             points_count |-> Cardinality(PointsOf(collection)),
                             status |-> "green"]
                       ELSE Wrapped("get_collection"),
                       <<Call("qdrant", "get_collection", go, FALSE)>>)
        /\ UNCHANGED <<qdrant, openai, storeVars, issued, concVars>>

-----------------------------------------------------------------------------
(* create_collection *)

AlreadyExists(clean) == [error |-> [msg |-> "already exists", collection |-> clean]]

CreateReturnSwallowing(clean, co) == [success |-> TRUE, collection |-> clean]

\* What create_collection returns once the create call has ended
CreateReturn(clean, co) ==
    IF CreateRaises(clean, co)
    THEN Wrapped("create_collection")
    ELSE [success |-> TRUE, collection |-> clean]

\* The handler run to its end: the result, the calls, the store's collections
CreateCollectionRun(name, go, co) ==
    LET clean == CleanName(name)
        c1 == Call("qdrant", "get_collections", go, FALSE)
        c2 == Call("qdrant", "create_collection", co, TRUE)
    IN  IF ~qdrant
        THEN [result |-> Error("Qdrant not connected"), calls |-> <<>>,
              collections |-> collections]
        ELSE IF go # "ok"
        THEN [result |-> Wrapped("get_collections"), calls |-> <<c1>>,
              collections |-> collections]
        ELSE IF clean \in Names
        THEN [result |-> AlreadyExists(clean), calls |-> <<c1>>,
              collections |-> collections]
        ELSE [result |-> CreateReturn(clean, co), calls |-> <<c1, c2>>,
              collections |-> CollectionsAfterCreate(clean, co)]

CreateCollection(name) ==
    \E go \in Outs(qdrant, ReadOutcomes) :
      \E co \in Outs(qdrant /\ go = "ok" /\ CleanName(name) \notin Names, WriteOutcomes) :
        LET r == CreateCollectionRun(name, go, co)
        IN  /\ Invoke([name |-> "create_collection", arg |-> name], r.result, r.calls)
            /\ collections' = r.collections
            /\ UNCHANGED <<qdrant, openai, points, issued, concVars>>

-----------------------------------------------------------------------------
(* delete_collection *)

ConfirmIgnored(confirm) == TRUE

\* `if not confirm` is not taken
Confirmed(confirm) == confirm

DeleteCollectionRun(name, confirm, do) ==
    IF ~qdrant
    THEN [result |-> Error("Qdrant not connected"), calls |-> <<>>,
          collections |-> collections, points |-> points]
    ELSE IF ~Confirmed(confirm)
    THEN [result |-> [warning |-> [msg |-> "Will delete", collection |-> name]],
          calls |-> <<>>, collections |-> collections, points |-> points]
    ELSE [result |-> IF do = "ok" THEN [success |-> TRUE, deleted |-> name]
                     ELSE Wrapped("delete_collection"),
          calls |-> <<Call("qdrant", "delete_collection", do, TRUE)>>,
          collections |-> CollectionsAfterDelete(name, do),
          points |-> PointsAfterDeleteCollection(name, do)]

DeleteCollection(name, confirm) ==
    \E do \in Outs(qdrant /\ confirm, WriteOutcomes) :
        LET r == DeleteCollectionRun(name, confirm, do)
        IN  /\ Invoke([name |-> "delete_collection", arg |-> name, confirm |-> confirm],
                      r.result, r.calls)
            /\ collections' = r.collections
            /\ points' = r.points
            /\ UNCHANGED <<qdrant, openai, issued, concVars>>

-----------------------------------------------------------------------------
(* add_knowledge *)

AnyPointIds == PointIds

\* str(uuid.uuid4()): an identifier no earlier call returned
NewPointIds == PointIds \ issued

\* The PointStruct add_knowledge builds
NewPoint(collection, id, vector, title, content, category, source) ==
    [coll |-> collection, id |-> id, vector |-> vector,
     payload |-> [title |-> title, content |-> content, category |-> category,
                  source |-> source, created_at |-> UtcNow]]

AddKnowledgeRun(collection, title, content, category, source, id, eo, uo) ==
    LET g == GenerateEmbeddingRun(EmbedText(title, content), eo)
        keep == [calls |-> <<>>, points |-> points, issued |-> issued]
    IN  IF ~qdrant
        THEN [result |-> Error("Qdrant not connected")] @@ keep
        ELSE IF ~openai
        THEN [result |-> Error("OpenAI not configured")] @@ keep
        ELSE IF g.value = <<>>
        THEN [result |-> Error("Failed to generate embedding"), calls |-> g.calls,
              points |-> points, issued |-> issued]
        ELSE LET point == NewPoint(collection, id, g.value[1], title, content,
                                   category, source)
             IN  [result |-> IF UpsertRaises(collection, uo)
                             THEN Wrapped("upsert")
                             ELSE [success |-> TRUE, point_id |-> id, title |-> title,
                                   message |-> "Knowledge stored for future use!"],
                  calls |-> g.calls \o <<Call("qdrant", "upsert", uo, TRUE)>>,
                  points |-> PointsAfterUpsert(collection, point, uo),
                  issued |-> issued \cup {id}]

AddKnowledge(collection, title, content, category, source) ==
    \E id \in NewPointIds, eo \in Outs(qdrant /\ openai, ReadOutcomes) :
      \E uo \in Outs(qdrant /\ openai /\ eo = "ok", WriteOutcomes) :
        LET r == AddKnowledgeRun(collection, title, content, category, source, id, eo, uo)
        IN  /\ Invoke([name |-> "add_knowledge", collection |-> collection,
                       title |-> title, content |-> content], r.result, r.calls)
            /\ points' = r.points
            /\ issued' = r.issued
            /\ UNCHANGED <<qdrant, openai, collections, concVars>>

-----------------------------------------------------------------------------
(* search_knowledge *)

PreviewShort(content) == Take(content, PreviewLen - 1)

\* r.payload.get("content", "")[:500]
Preview(content) == Take(content, PreviewLen)

Reverse(seq) == [i \in 1..Len(seq) |-> seq[Len(seq) + 1 - i]]

FormatEntry(r) ==
    [score |-> RoundScore(r.score, SearchDigits),
     title |-> Get(r.payload, "title", <<"U", "n", "t", "i", "t", "l", "e", "d">>),
     content |-> Preview(Get(r.payload, "content", <<>>)),
     category |-> Get(r.payload, "category", "None"),
     source |-> Get(r.payload, "source", "None"),
     point_id |-> r.id]

FormatResultsReversed(answer) == Reverse([i \in 1..Len(answer) |-> FormatEntry(answer[i])])

\* The loop over results.points that builds `formatted`
FormatResults(answer) == [i \in 1..Len(answer) |-> FormatEntry(answer[i])]

SearchKnowledgeRun(collection, query, limit, eo, qo, lenient, answer) ==
    LET g == GenerateEmbeddingRun(query, eo)
    IN  IF ~qdrant
        THEN [result |-> Error("Qdrant not connected"), calls |-> <<>>]
        ELSE IF ~openai
        THEN [result |-> Error("OpenAI not configured"), calls |-> <<>>]
        ELSE IF g.value = <<>>
        THEN [result |-> Error("Failed to generate query embedding"), calls |-> g.calls]
        ELSE [result |-> IF qo = "ok" /\ QueryAccepted(collection, limit, lenient)
                         THEN [results |-> FormatResults(answer),
                               count |-> Len(FormatResults(answer))]
                         ELSE Wrapped("query_points"),
              calls |-> g.calls \o <<Call("qdrant", "query_points", qo, FALSE)>>]

\* Whether the store takes a limit of 0 matters for that limit alone
Lenience(limit) == IF limit = 0 THEN BOOLEAN ELSE {TRUE}

\* The answers the store may give to the query the handler would send
AnswersTo(collection, query, limit) ==
    IF collection \in Names /\ limit >= 0
    THEN ScoredAnswers(collection, StubVector(Take(query, EmbedMaxChars)), limit)
    ELSE {<<>>}

SearchKnowledge(collection, query, limit) ==
    \E eo \in Outs(qdrant /\ openai, ReadOutcomes) :
      \E qo \in Outs(qdrant /\ openai /\ eo = "ok", ReadOutcomes),
         lenient \in Lenience(limit),
         answer \in AnswersTo(collection, query, limit) :
        LET r == SearchKnowledgeRun(collection, query, limit, eo, qo, lenient, answer)
        IN  /\ Invoke([name |-> "search_knowledge", collection |-> collection,
                       query |-> query, limit |-> limit], r.result, r.calls)
            /\ UNCHANGED <<qdrant, openai, storeVars, issued, concVars>>

-----------------------------------------------------------------------------
(* delete_knowledge *)

DeleteKnowledge(collection, point_id) ==
    \E do \in Outs(qdrant, WriteOutcomes) :
        /\ IF ~qdrant
           THEN /\ Invoke([name |-> "delete_knowledge", collection |-> collection,
                           point_id |-> point_id], Error("Qdrant not connected"), <<>>)
                /\ points' = points
           ELSE /\ Invoke([name |-> "delete_knowledge", collection |-> collection,
                           point_id |-> point_id],
                          IF DeletePointsRaises(collection, do)
                          THEN Wrapped("delete")
                          ELSE [success |-> TRUE, deleted |-> point_id],
                          <<Call("qdrant", "delete", do, TRUE)>>)
                /\ points' = PointsAfterDeletePoint(collection, point_id, do)
        /\ UNCHANGED <<qdrant, openai, collections, issued, concVars>>

-----------------------------------------------------------------------------
(* _internal_search, troubleshoot *)

InternalEntry(r) ==
    [title |-> Get(r.payload, "title", <<>>),
     content |-> Take(Get(r.payload, "content", <<>>), InternalPreviewLen),
     score |-> RoundScore(r.score, InternalDigits)]

\* The list returned and the calls made
InternalSearchRun(collection, query, limit, eo, qo, lenient, answer) ==
    LET g == GenerateEmbeddingRun(query, eo)
    IN  IF ~qdrant \/ ~openai
        THEN [value |-> <<>>, calls |-> <<>>]
        ELSE IF g.value = <<>>
        THEN [value |-> <<>>, calls |-> g.calls]
        ELSE [value |-> IF qo = "ok" /\ QueryAccepted(collection, limit, lenient)
                        THEN [i \in 1..Len(answer) |-> InternalEntry(answer[i])]
                        ELSE <<>>,
              calls |-> g.calls \o <<Call("qdrant", "query_points", qo, FALSE)>>]

HasGoodMatchInclusive(results) ==
    \E i \in 1..Len(results) :
        results[i].score * 10 >= ThresholdTenths * Pow10(InternalDigits)

\* any(r.get("score", 0) > 0.3 for r in results)
HasGoodMatch(results) ==
    \E i \in 1..Len(results) :
        results[i].score * 10 > ThresholdTenths * Pow10(InternalDigits)

TroubleshootReturn(results) ==
    [sop_reminder |-> "FOLLOW THESE RULES",
     relevant_knowledge |-> results,
     has_good_match |-> HasGoodMatch(results),
     diagnostic_command |-> "bash /root/vps-scripts/diagnostic.sh",
     next_step |-> IF HasGoodMatch(results)
                   THEN "Use internal solution"
                   ELSE "Search web for solution, then add_knowledge() when fixed",
     self_healing_reminder |-> "ADD IT to gold_coast_infrastructure collection!"]

Troubleshoot(issue) ==
    \E eo \in Outs(qdrant /\ openai, ReadOutcomes) :
      \E qo \in Outs(qdrant /\ openai /\ eo = "ok", ReadOutcomes),
         lenient \in Lenience(TroubleshootLimit),
         answer \in AnswersTo(InfraCollection, issue, TroubleshootLimit) :
        LET s == InternalSearchRun(InfraCollection, issue, TroubleshootLimit,
                                   eo, qo, lenient, answer)
        IN  /\ Invoke([name |-> "troubleshoot", issue |-> issue],
                      TroubleshootReturn(s.value), s.calls)
            /\ UNCHANGED <<qdrant, openai, storeVars, issued, concVars>>

-----------------------------------------------------------------------------
(* The exec API tools *)

ExcClass(ho) ==
    CASE ho = "timeout" -> "TimeoutException"
      [] ho = "connect" -> "ConnectError"
      [] OTHER -> "JSONDecodeError"

\* The JSON body of a 200 response
Body(ho) ==
    [stdout |-> IF ho = "200_rc0" THEN "out" ELSE "",
     stderr |-> IF ho = "200_rc0" THEN "" ELSE "err",
     returncode |-> IF ho = "200_rc0" THEN 0 ELSE 1]

ExecCommandReturn(timeout, ho) ==
    CASE ho \in {"200_rc0", "200_rc1"} -> Body(ho)
      [] ho = "500" -> [error |-> [msg |-> "API returned", status |-> 500, text |-> "body"]]
      [] ho = "timeout" -> [error |-> [msg |-> "Command timed out after", timeout |-> timeout]]
      [] OTHER -> WrappedHttp(ExcClass(ho))

\* The shape read_file, write_file and list_directory share: `ok` is the
\* dict returned when the command's returncode is 0
FileToolReturn(ok, ho) ==
    CASE ho = "200_rc0" -> ok
      [] ho = "200_rc1" -> [error |-> [msg |-> Body(ho).stderr]]
      [] ho = "500" -> [error |-> [msg |-> "API returned", status |-> 500]]
      [] OTHER -> WrappedHttp(ExcClass(ho))

ExecCommand(cmd, timeout) ==
    \E ho \in HttpOutcomes :
        /\ Invoke([name |-> "exec_command", cmd |-> cmd, timeout |-> timeout],
                  ExecCommandReturn(timeout, ho),
                  <<Call("webtop", "exec", ho, TRUE)>>)
        /\ UNCHANGED <<qdrant, openai, storeVars, issued, concVars>>

ReadFile(filepath) ==
    \E ho \in HttpOutcomes :
        /\ Invoke([name |-> "read_file", filepath |-> filepath, timeout |-> ReadFileTimeout],
                  FileToolReturn([content |-> Body(ho).stdout, path |-> filepath], ho),
                  <<Call("webtop", "exec", ho, FALSE)>>)
        /\ UNCHANGED <<qdrant, openai, storeVars, issued, concVars>>

WriteFile(filepath, content) ==
    \E ho \in HttpOutcomes :
        /\ Invoke([name |-> "write_file", filepath |-> filepath, timeout |-> WriteFileTimeout],
                  FileToolReturn([success |-> TRUE, path |-> filepath], ho),
                  <<Call("webtop", "exec", ho, TRUE)>>)
        /\ UNCHANGED <<qdrant, openai, storeVars, issued, concVars>>

ListDirectory(path) ==
    \E ho \in HttpOutcomes :
        /\ Invoke([name |-> "list_directory", path |-> path, timeout |-> ListDirTimeout],
                  FileToolReturn([listing |-> Body(ho).stdout, path |-> path], ho),
                  <<Call("webtop", "exec", ho, FALSE)>>)
        /\ UNCHANGED <<qdrant, openai, storeVars, issued, concVars>>

-----------------------------------------------------------------------------
(* test_connection *)

TestConnection(message) ==
    /\ Invoke([name |-> "test_connection", message |-> message],
              <<"OK!", message,
                IF qdrant THEN "connected" ELSE "disconnected",
                IF openai THEN "configured" ELSE "missing">>,
              <<>>)
    /\ UNCHANGED <<qdrant, openai, storeVars, issued, concVars>>

-----------------------------------------------------------------------------
(* The server, one invocation at a time *)

Procs == 1..NumProcs

NoCollections == [n \in {} |-> VectorParams]

InitConc ==
    /\ pc = [p \in Procs |-> "idle"]
    /\ cname = [p \in Procs |-> <<>>]
    /\ existing = [p \in Procs |-> {}]
    /\ cresult = [p \in Procs |-> <<>>]
    /\ creator = 0

Init ==
    /\ qdrant \in BOOLEAN
    /\ openai \in BOOLEAN
    /\ collections = NoCollections
    /\ points = {}
    /\ issued = {}
    /\ op = Idle
    /\ result = <<>>
    /\ calls = <<>>
    /\ InitConc

Paths == {"/config/notes.txt"}
Commands == {"uptime"}

Next ==
    \/ \E text \in Queries : GenerateEmbedding(text)
    \/ ListCollections
    \/ \E c \in CollectionArgs : GetCollectionStats(c)
    \/ \E n \in CreateNames : CreateCollection(n)
    \/ \E n \in CollectionArgs, confirm \in BOOLEAN : DeleteCollection(n, confirm)
    \/ \E c \in CollectionArgs, n \in Notes, k \in Categories, s \in Sources :
          AddKnowledge(c, n.title, n.content, k, s)
    \/ \E c \in CollectionArgs, q \in Queries, l \in Limits : SearchKnowledge(c, q, l)
    \/ \E c \in CollectionArgs, id \in PointIds : DeleteKnowledge(c, id)
    \/ \E issue \in Queries : Troubleshoot(issue)
    \/ \E cmd \in Commands, t \in ExecTimeouts : ExecCommand(cmd, t)
    \/ \E f \in Paths : ReadFile(f)
    \/ \E f \in Paths : WriteFile(f, <<"h", "i">>)
    \/ \E d \in Paths : ListDirectory(d)
    \/ TestConnection("ping")
    \/ Respond

Spec == Init /\ [][Next]_vars

-----------------------------------------------------------------------------
(* create_collection invoked concurrently: each invocation is a thread of   *)
(* the server; its two store calls are separate steps, with no lock held    *)
(* between them.                                                            *)

\* the names whose normalized form is "my_notes"
ConcNames == {n \in CreateNames : CleanName(n) = MyNotesClean}

Finish(p, r) == pc' = [pc EXCEPT ![p] = "done"] /\ cresult' = [cresult EXCEPT ![p] = r]

\* `if not qdrant` and the computation of clean_name
CCInvoke(p, name) ==
    /\ pc[p] = "idle"
    /\ cname' = [cname EXCEPT ![p] = name]
    /\ IF ~qdrant
       THEN Finish(p, Error("Qdrant not connected"))
       ELSE pc' = [pc EXCEPT ![p] = "check"] /\ UNCHANGED cresult
    /\ UNCHANGED <<qdrant, openai, storeVars, seqVars, existing, creator>>

\* existing = [...get_collections()...]; if clean_name in existing: return
CCCheck(p) ==
    /\ pc[p] = "check"
    /\ \E go \in ReadOutcomes :
        IF go # "ok"
        THEN Finish(p, Wrapped("get_collections")) /\ UNCHANGED existing
        ELSE /\ existing' = [existing EXCEPT ![p] = Names]
             /\ IF CleanName(cname[p]) \in Names
                THEN Finish(p, AlreadyExists(CleanName(cname[p])))
                ELSE pc' = [pc EXCEPT ![p] = "create"] /\ UNCHANGED cresult
    /\ UNCHANGED <<qdrant, openai, storeVars, seqVars, cname, creator>>

\* qdrant.create_collection(...) and the return, or the except clause
CCCreate(p) ==
    /\ pc[p] = "create"
    /\ \E co \in WriteOutcomes :
        /\ Finish(p, CreateReturn(CleanName(cname[p]), co))
        /\ collections' = CollectionsAfterCreate(CleanName(cname[p]), co)
        /\ creator' = IF collections' # collections THEN p ELSE creator
    /\ UNCHANGED <<qdrant, openai, points, seqVars, cname, existing>>

\* The collection may exist before the invocations start
InitConcurrent ==
    /\ qdrant \in BOOLEAN
    /\ openai \in BOOLEAN
    /\ collections \in {NoCollections, [n \in {MyNotesClean} |-> VectorParams]}
    /\ points = {}
    /\ issued = {}
    /\ op = Idle
    /\ result = <<>>
    /\ calls = <<>>
    /\ InitConc

NextConc ==
    \/ \E p \in Procs, n \in ConcNames : CCInvoke(p, n)
    \/ \E p \in Procs : CCCheck(p)
    \/ \E p \in Procs : CCCreate(p)

SpecConc == InitConcurrent /\ [][NextConc]_vars

-----------------------------------------------------------------------------
(* Properties *)

\* The step is the server running the handler `name`
Runs(name) == op = Idle /\ op'.name = name

NotConnected(r) == Has(r, "error") /\ r.error.msg = "Qdrant not connected"

\* C1, as amended: delete_collection without confirm=True changes neither
\* the collections nor their points, makes no call to the store and never
\* returns success; it returns a warning (and no error) when the store client
\* is connected, and the error "Qdrant not connected" when it is not.
C1_UnconfirmedDeleteIsNoOp ==
    [][(Runs("delete_collection") /\ ~op'.confirm) =>
         /\ collections' = collections
         /\ points' = points
         /\ calls' = <<>>
         /\ ~Has(result', "success")
         /\ qdrant => Has(result', "warning") /\ ~Has(result', "error")
         /\ ~qdrant => NotConnected(result')]_vars

\* C1, as stated: in every configuration delete_collection without
\* confirm=True leaves the store unchanged, makes no call and returns a
\* warning, never an error and never a success.
C1_AlwaysWarning ==
    [][(Runs("delete_collection") /\ ~op'.confirm) =>
         /\ collections' = collections
         /\ points' = points
         /\ calls' = <<>>
         /\ Has(result', "warning")
         /\ ~Has(result', "error")
         /\ ~Has(result', "success")]_vars

\* An unconfirmed delete of an existing collection that holds a point was
\* answered with a warning.
C1_Witness ==
    /\ op.name = "delete_collection"
    /\ ~op.confirm
    /\ op.arg \in Names
    /\ PointsOf(op.arg) # {}
    /\ Has(result, "warning")

EmbeddingDependent == {"generate_embedding", "add_knowledge", "search_knowledge"}

\* C2, as amended: with no embedding credential, generate_embedding returns
\* None and add_knowledge and search_knowledge return a structured error
\* ("OpenAI not configured" when the store client is connected, "Qdrant not
\* connected" when it is not); none of the three makes an outbound call.
C2_UnconfiguredNoCalls ==
    (~openai /\ op.name \in EmbeddingDependent) =>
        /\ calls = <<>>
        /\ op.name = "generate_embedding" => result = <<>>
        /\ op.name # "generate_embedding" =>
             /\ Has(result, "error")
             /\ result.error.msg =
                    IF qdrant THEN "OpenAI not configured" ELSE "Qdrant not connected"

\* C2, as stated: with no embedding credential each of generate_embedding,
\* add_knowledge and search_knowledge returns a structured "not configured"
\* error and makes no outbound call.
C2_AllReturnStructuredError ==
    (~openai /\ op.name \in EmbeddingDependent) =>
        /\ calls = <<>>
        /\ Has(result, "error")
        /\ result.error.msg \in {"OpenAI not configured", "Qdrant not connected"}

\* add_knowledge on an existing collection was refused for want of the
\* embedding credential.
C2_Witness ==
    /\ ~openai
    /\ op.name = "add_knowledge"
    /\ op.collection \in Names
    /\ Has(result, "error")
    /\ result.error.msg = "OpenAI not configured"

SearchSucceeded == op.name = "search_knowledge" /\ Has(result, "results")

AddSucceeded == op.name = "add_knowledge" /\ Has(result, "success")

\* The vector of the query a search_knowledge invocation sent
QueryVector == StubVector(op.query)

\* The stored points a search query matches exactly
ExactMatches == {p \in PointsOf(op.collection) : p.vector = QueryVector}

\* The point a successful add_knowledge reports is stored with the title and
\* content it was given.
AddStoresPayload ==
    AddSucceeded =>
        \E p \in PointsOf(op.collection) :
            /\ p.id = result.point_id
            /\ p.payload.title = op.title
            /\ p.payload.content = op.content

\* The entry of a search result for the stored point p, if any
EntriesFor(p) == {i \in 1..Len(result.results) : result.results[i].point_id = p.id}

\* The search admits every point its query matches exactly
AdmitsMatches == SearchSucceeded /\ Cardinality(ExactMatches) <= op.limit

First500(content) == SubSeq(content, 1, IF Len(content) < 500 THEN Len(content) ELSE 500)

\* C3, as amended: the title and content given to a successful add_knowledge
\* are stored unchanged, and a search_knowledge on the collection whose query
\* matches the point returns its title unchanged and the first 500 characters
\* of its content (the whole content when it has at most 500 characters).
C3_RoundTripOfPreview ==
    /\ AddStoresPayload
    /\ AdmitsMatches =>
         \A p \in ExactMatches :
             \E i \in EntriesFor(p) :
                 /\ result.results[i].title = p.payload.title
                 /\ result.results[i].content = First500(p.payload.content)

\* C3, as stated: the search returns title and content equal to those added,
\* for content of any length.
C3_RoundTripOfWholeContent ==
    AdmitsMatches =>
        \A p \in ExactMatches :
            \E i \in EntriesFor(p) :
                /\ result.results[i].title = p.payload.title
                /\ result.results[i].content = p.payload.content

\* A search returned a point it matches exactly whose stored content is
\* longer than 500 characters.
C3_Witness ==
    /\ SearchSucceeded
    /\ \E p \in ExactMatches :
           /\ Len(p.payload.content) > 500
           /\ \E i \in 1..Len(result.results) : result.results[i].point_id = p.id

\* C4: a successful search_knowledge returns at most `limit` entries, their
\* reported scores in non-increasing order, `count` equal to the number of
\* entries, and the entries in the order and number of an answer of the store.
C4_SearchBoundedAndOrdered ==
    SearchSucceeded =>
        LET rs == result.results
        IN  /\ Len(rs) <= op.limit
            /\ \A i \in 1..(Len(rs) - 1) : rs[i].score >= rs[i + 1].score
            /\ result.count = Len(rs)
            /\ \E a \in QueryPointsAnswers(op.collection, QueryVector, op.limit) :
                   /\ Len(a) = Len(rs)
                   /\ \A i \in 1..Len(a) : a[i].id = rs[i].point_id

\* A search returned two entries of different scores.
C4_Witness ==
    /\ SearchSucceeded
    /\ Len(result.results) = 2
    /\ result.results[1].score > result.results[2].score

\* The normalized form of each name given to create_collection: lowercase,
\* hyphens and spaces to underscores ('My Notes' -> 'my_notes')
ExpectedClean(name) == IF name = InfraRaw THEN InfraCollection ELSE MyNotesClean

CallApis(cs) == [i \in 1..Len(cs) |-> cs[i].api]

AlreadyExistsFor(r, clean) ==
    /\ Has(r, "error")
    /\ r.error.msg = "already exists"
    /\ r.error.collection = clean

SuccessFor(r, clean) == Has(r, "success") /\ r.collection = clean

\* The collections are those before the step and the collection `clean`,
\* created with the fixed width and cosine distance
CreatedOnly(clean) ==
    /\ DOMAIN collections' = Names \cup {clean}
    /\ collections'[clean] = VectorParams
    /\ \A n \in Names : collections'[n] = collections[n]

\* C5, as amended: create_collection never alters a point or an existing
\* collection.  With the store client connected and get_collections
\* answering: if the normalized name exists it returns "already exists" and
\* makes no create call; otherwise it makes one create call under the
\* normalized name and, when that call returns, has created exactly that
\* collection and returns success with the normalized name.  With the client
\* not connected, or a store call failing, it returns an error.
C5_CreateNormalizesAndGuards ==
    [][Runs("create_collection") =>
         LET clean == ExpectedClean(op'.arg)
         IN  /\ points' = points
             /\ collections' = collections \/ CreatedOnly(clean)
             /\ ~qdrant =>
                  NotConnected(result') /\ calls' = <<>> /\ collections' = collections
             /\ (qdrant /\ calls'[1].outcome # "ok") =>
                  /\ Has(result', "error")
                  /\ CallApis(calls') = <<"get_collections">>
                  /\ collections' = collections
             /\ (qdrant /\ calls'[1].outcome = "ok" /\ clean \in Names) =>
                  /\ AlreadyExistsFor(result', clean)
                  /\ CallApis(calls') = <<"get_collections">>
                  /\ collections' = collections
             /\ (qdrant /\ calls'[1].outcome = "ok" /\ clean \notin Names) =>
                  /\ CallApis(calls') = <<"get_collections", "create_collection">>
                  /\ calls'[2].outcome = "ok" =>
                       SuccessFor(result', clean) /\ CreatedOnly(clean) /\ clean \in DOMAIN collections'
                  /\ calls'[2].outcome # "ok" => Has(result', "error")]_vars

\* C5, as stated: if the normalized name exists, "already exists" with no
\* create call and nothing altered; otherwise exactly one collection is
\* created under the normalized name and success is returned with that name.
C5_CreateOrAlreadyExists ==
    [][Runs("create_collection") =>
         LET clean == ExpectedClean(op'.arg)
         IN  /\ points' = points
             /\ clean \in Names =>
                  /\ AlreadyExistsFor(result', clean)
                  /\ \A i \in 1..Len(calls') : calls'[i].api # "create_collection"
                  /\ collections' = collections
             /\ clean \notin Names =>
                  /\ SuccessFor(result', clean)
                  /\ CreatedOnly(clean)]_vars

\* create_collection("My Notes") was answered "already exists" for my_notes.
C5_Witness ==
    /\ op.name = "create_collection"
    /\ op.arg = MyNotesSpaced
    /\ AlreadyExistsFor(result, MyNotesClean)

ExecTools == {"exec_command", "read_file", "write_file", "list_directory"}

\* C6, as stated: when its remote call exceeds the deadline, each of the four
\* exec-API tools returns a timeout-specific message, not the generic wrapped
\* message str(e) it returns for any other transport failure.
C6_TimeoutSpecificMessage ==
    (op.name \in ExecTools /\ calls[1].outcome = "timeout") =>
        /\ Has(result, "error")
        /\ result.error.msg # "str(e)"

SamePoint(p, q) == p.coll = q.coll /\ p.id = q.id

\* C7: a stored point's identifier, vector and payload never change; every
\* successful add_knowledge inserts one point under an identifier no stored
\* point has, so the collection grows by exactly one point and no point is
\* overwritten; only delete_knowledge and delete_collection(confirm=True)
\* remove a point.
C7_PointsAreImmutable ==
    [][/\ \A p \in points : (\E q \in points' : SamePoint(p, q)) => p \in points'
       /\ (Runs("add_knowledge") /\ Has(result', "success")) =>
            \E q \in points' :
                /\ q.id = result'.point_id
                /\ q.coll = op'.collection
                /\ \A p \in points : p.id # q.id
                /\ points' = points \cup {q}
                /\ Cardinality({r \in points' : r.coll = q.coll})
                     = Cardinality(PointsOf(q.coll)) + 1
       /\ (points \ points' # {}) =>
            \/ op'.name = "delete_knowledge"
            \/ op'.name = "delete_collection" /\ op'.confirm]_vars

\* add_knowledge succeeded on a collection that already held a point.
C7_Witness ==
    /\ AddSucceeded
    /\ Cardinality(PointsOf(op.collection)) = 2

\* A call that did not complete: the SDK or httpx raised, the response was
\* not a 200, or its body was no JSON
Failed(c) == c.outcome \notin {"ok", "200_rc0", "200_rc1"}

\* C8: troubleshoot returns its advice whatever happens: has_good_match is
\* true exactly when some entry of relevant_knowledge scores above 0.3 (300
\* thousandths), the next step is the internal solution then and the web
\* search followed by add_knowledge otherwise; an unconfigured or failed
\* internal search gives an empty list and so no good match; the handler
\* calls only the embedding provider and the store's query, and changes
\* nothing.
C8_TroubleshootAdvice ==
    op.name = "troubleshoot" =>
        LET rk == result.relevant_knowledge
            above == \E i \in 1..Len(rk) : rk[i].score > 300
        IN  /\ result.has_good_match = above
            /\ above => result.next_step = "Use internal solution"
            /\ ~above => result.next_step =
                   "Search web for solution, then add_knowledge() when fixed"
            /\ (~qdrant \/ ~openai \/ \E i \in 1..Len(calls) : Failed(calls[i])) =>
                   rk = <<>> /\ ~result.has_good_match
            /\ \A i \in 1..Len(calls) :
                   /\ ~calls[i].mutating
                   /\ calls[i].api \in {"embeddings.create", "query_points"}

\* troubleshoot found entries, the best of them scoring exactly 0.3, and
\* advised the web search.
C8_Witness ==
    /\ op.name = "troubleshoot"
    /\ \E i \in 1..Len(result.relevant_knowledge) :
           result.relevant_knowledge[i].score = 300
    /\ ~result.has_good_match

\* The handlers that turn a failed call into an empty value, not an error
ReportsEmpty ==
    \/ op.name = "generate_embedding" /\ result = <<>>
    \/ op.name = "troubleshoot" /\ result.relevant_knowledge = <<>>

\* C9, as amended: an invocation makes at most two outbound calls, each to a
\* different endpoint and each once; at most one of them changes state and
\* it is the last; no call follows a failed one; and a failed call is
\* reported at once, as an error result, or as None by generate_embedding
\* and as an empty match list by troubleshoot.
C9_AtMostTwoCallsNoRetry ==
    op # Idle =>
        /\ Len(calls) <= 2
        /\ \A i, j \in 1..Len(calls) : i # j => calls[i].api # calls[j].api
        /\ \A i \in 1..Len(calls) : calls[i].mutating => i = Len(calls)
        /\ \A i \in 1..Len(calls) : Failed(calls[i]) => i = Len(calls)
        /\ (\E i \in 1..Len(calls) : Failed(calls[i])) =>
               Has(result, "error") \/ ReportsEmpty

\* C9, as stated: every tool invocation makes a single outbound call, and a
\* failed call is reported as an error result.
C9_SingleCall ==
    op.name \notin {"none", "generate_embedding"} =>
        /\ Len(calls) <= 1
        /\ (\E i \in 1..Len(calls) : Failed(calls[i])) => Has(result, "error")

\* add_knowledge embedded the text, the upsert failed, and the failure was
\* returned as an error.
C9_Witness ==
    /\ op.name = "add_knowledge"
    /\ Len(calls) = 2
    /\ calls[2].outcome = "refused"
    /\ Has(result, "error")

AllDone == \A p \in Procs : pc[p] = "done"

Succeeded(p) == pc[p] = "done" /\ Has(cresult[p], "success")

====
